---- MODULE Spec2Model ----
(***************************************************************************)
(* Incremental rendering pipeline of deno_tui: text and box draw objects   *)
(* painting into a canvas frame buffer, driven by one tick of the          *)
(* compositor (settle -> geometry -> paint -> flush).                      *)
(*                                                                         *)
(* TextObject (src/unnamed/part_001) and BoxObject (src/unnamed/part_002)  *)
(* are translated from their source.  The DrawObject base class, the       *)
(* canvas/compositor loop, the signal graph and the geometry helpers are   *)
(* not among the source files; they are modelled from spec.md and marked   *)
(* so in MODEL_MAP.json.                                                   *)
(***************************************************************************)
EXTENDS Integers, Sequences, FiniteSets, TLC

\* ------------------------------------------------------------ bounds
Rows == 2            \* canvas.size.rows
Columns == 3         \* canvas.size.columns
Margin == 1          \* how far outside the canvas an object may be placed
MaxLen == 2          \* longest text value
BoxSize == 2         \* width and height of the box object
MaxMut == 2          \* external mutations in one behaviour
MaxTicks == 2        \* ticks in one behaviour
MaxSettleIter == 2   \* settle iterations before ReactiveDivergence
CounterMod == 2      \* the self-writing effect's cell counts modulo this
MaxWrites == 3       \* write(value) calls on the reactive Cell in one behaviour
MaxQueueCalls == 3   \* cells written and queued for output in one behaviour
MaxComponents == 4   \* createComponent calls in one behaviour
MaxLines == 2        \* lines of a textbox's value
MaxChars == 3        \* characters of a textbox's value, typed ones included

\* ------------------------------------------------------------ objects
Obj == {"t1", "bx", "t2"}
TextObj == {"t1", "t2"}
Kind(o) == IF o \in TextObj THEN "text" ELSE "box"
zIndex(o) == CASE o = "t1" -> 1 [] o = "bx" -> 2 [] o = "t2" -> 3
\* registration order, and the same objects by descending z-index
drawnObjects == <<"t1", "bx", "t2">>
PaintOrder == <<"t2", "bx", "t1">>

Chars == {"a", "b"}
Fillers == {"#", "."}
Values == UNION {[1..n -> Chars] : n \in 0..MaxLen}
PosRows == (0 - Margin)..(Rows - 1 + Margin)
PosCols == (0 - Margin)..(Columns - 1 + Margin)
AllPos == PosRows \X PosCols
InBounds(p) == p[1] >= 0 /\ p[1] < Rows /\ p[2] >= 0 /\ p[2] < Columns

NoRect == [row |-> 0, column |-> 0, width |-> 0 - 1, height |-> 0 - 1]
Rect(r, c, w, h) == [row |-> r, column |-> c, width |-> w, height |-> h]
CellsOf(rect) ==
  {<<r, c>> : r \in rect.row..(rect.row + rect.height - 1),
              c \in rect.column..(rect.column + rect.width - 1)}

Min(a, b) == IF a < b THEN a ELSE b
Max(a, b) == IF a > b THEN a ELSE b

\* style(char): the object's style function applied to a character
Styled(o, ch) == <<o, ch>>
Empty == <<"none", " ">>

\* value[i] of a JavaScript string (0-based; undefined past the end)
CharAt(s, i) == IF i >= 0 /\ i < Len(s) THEN s[i + 1] ELSE "undefined"
textWidth(s) == Len(s)

\* ------------------------------------------------------------ geometry helpers
rectangleEquals(a, b) ==
  a.row = b.row /\ a.column = b.column /\ a.width = b.width /\ a.height = b.height

fitsInRectangle(column, row, rect) ==
  /\ column >= rect.column /\ column < rect.column + rect.width
  /\ row >= rect.row /\ row < rect.row + rect.height

rectangleIntersection(a, b) ==
  LET r0 == Max(a.row, b.row)
      c0 == Max(a.column, b.column)
      r1 == Min(a.row + a.height, b.row + b.height)
      c1 == Min(a.column + a.width, b.column + b.width)
  IN IF r1 > r0 /\ c1 > c0 THEN Rect(r0, c0, c1 - c0, r1 - r0) ELSE NoRect

\* ------------------------------------------------------------ per-row cell sets
\* A JavaScript `Set<number>[]`: a map from the rows that hold a Set to its columns.
NoRows == [r \in {} |-> {}]
HasRow(m, r) == r \in DOMAIN m
RowOf(m, r) == IF r \in DOMAIN m THEN m[r] ELSE {}
CellsIn(m) == UNION {{<<r, c>> : c \in m[r]} : r \in DOMAIN m}
AddCells(m, cells) ==
  [r \in (DOMAIN m) \cup {p[1] : p \in cells} |->
     RowOf(m, r) \cup {p[2] : p \in {q \in cells : q[1] = r}}]
ClearRow(m, r) == IF r \in DOMAIN m THEN [m EXCEPT ![r] = {}] ELSE m
ClearAll(m) == [r \in DOMAIN m |-> {}]

\* ------------------------------------------------------------ state
VARIABLES
  rectangle,          \* DrawObject.rectangle
  previousRectangle,  \* DrawObject.previousRectangle (NoRect: undefined)
  value,              \* TextObject.value
  previousValue,      \* TextObject.previousValue
  filler,             \* BoxObject.filler (a signal)
  rendered,           \* DrawObject.rendered
  rerenderCells,      \* DrawObject.rerenderCells
  omitCells,          \* DrawObject.omitCells
  objectsUnder,       \* DrawObject.objectsUnder
  view,               \* DrawObject.view's rectangle (NoRect: no view)
  faulty,             \* objects whose style function throws
  frameBuffer,        \* canvas.frameBuffer
  rerenderQueue,      \* canvas.rerenderQueue
  output,             \* runs written to the output sink by the last flush
  label,              \* a signal whose effect copies it into t1.value
  counter,            \* the signal the self-writing effect reads and writes
  subscribed,         \* whether the self-writing effect is subscribed
  pending,            \* effects scheduled and not yet run
  pc,                 \* the step of the tick that runs next ("idle": between ticks)
  idx,                \* position in drawnObjects / PaintOrder within a pass
  settleIter,         \* effect runs in this tick's settle step
  result,             \* what the last runTick returned ("running" inside a tick)
  errors,             \* objects whose render/rerender failed in this tick
  painted,            \* objects whose render/rerender was called in this tick
  flushed,            \* whether this tick's flush has run
  ticks,
  mut,
  cellValue,          \* the value a reactive Cell holds, with the identity of the object
  computedDirty,      \* Computed: dirty flag
  computedMemo,       \* Computed: memoized value
  derives,            \* how often each Computed's derive function has run
  unread,             \* per Computed: changing writes since it was last evaluated
  lastRead,           \* the last read of a Computed: what was unread, what ran
  lastWrite,          \* the last write(value): the object written, whether it was equal
  writes,             \* write(value) calls so far
  queuedBy,           \* per cell: the objects that queued it for output in this pass
  renderCalls,        \* cells written and queued for output so far
  components,         \* instance.components
  children,           \* children of the instance and of every component
  parent,             \* component.parent
  drawPriority,       \* component.drawPriority
  handlers,           \* the events a component's emitter has handlers for
  componentId,        \* the module's componentId counter
  removed,            \* the components some removeComponent call has removed
  tbValue,            \* textbox.value: the lines
  position,           \* the textbox's cursor, position.x and position.y
  hidden,             \* textbox.hidden
  tbRectangle,        \* textbox.rectangle
  selected,           \* instance.selected: item, focused, active
  drawn,              \* the drawText/drawPixel calls of draw() since the last key
  multiline,          \* textbox.multiline
  emitted,            \* the valueChange payloads emitted by the last key event
  lastEvent,          \* the last key event
  previousEvent,      \* the key event before the last
  startPosition,      \* position before the last key event
  component,          \* the component getCurrentStyler is called for
  options,            \* the options getCurrentStyler is called with
  styler,             \* component.styler
  currentStyler       \* what getCurrentStyler returned (no key: not called)

objVars == <<rectangle, previousRectangle, value, previousValue, filler, rendered,
             rerenderCells, omitCells, objectsUnder, view, faulty>>
canvasVars == <<frameBuffer, rerenderQueue, output>>
graphVars == <<label, counter, subscribed, pending>>
tickVars == <<pc, idx, settleIter, result, errors, painted, flushed, ticks>>
signalVars == <<cellValue, computedDirty, computedMemo, derives, unread, lastRead,
               lastWrite, writes>>
\* the state outside the rendering pipeline
queueVars == <<queuedBy, renderCalls>>
\* the state outside the signal graph, and outside the output queue
registryVars == <<components, children, parent, drawPriority, handlers, componentId,
                 removed>>
textboxVars == <<tbValue, position, hidden, tbRectangle, selected, drawn, multiline, emitted,
                lastEvent, previousEvent, startPosition>>
besidesSignal == <<queueVars, registryVars, textboxVars, component, options, styler,
                   currentStyler>>
besidesQueue == <<signalVars, registryVars, textboxVars, component, options, styler,
                  currentStyler>>
besidesRegistry == <<signalVars, queueVars, textboxVars, component, options, styler,
                     currentStyler>>
stylerVars == <<component, options, styler, currentStyler>>
besidesTextbox == <<signalVars, queueVars, registryVars, stylerVars>>
sideVars == <<signalVars, queueVars, registryVars, textboxVars, stylerVars>>
vars == <<objVars, canvasVars, graphVars, tickVars, mut, sideVars>>

TheView == Rect(0, 1, BoxSize, 1)

\* ------------------------------------------------------------ reactive graph
\* One Cell; c1 = derive(cell + 1); c2 = derive(c1 * 2); an Effect that tracks
\* the Cell and queues the box for rerender.
Computeds == {"c1", "c2"}
CellValues == {0, 1}
Refs == {0, 1}
NoValue == 0 - 1
\* the Computeds a Computed reads, itself included
Upstream(c) == IF c = "c1" THEN {"c1"} ELSE {"c1", "c2"}
Derive(c, in) == IF c = "c1" THEN in + 1 ELSE in * 2

SignalInit ==
  /\ cellValue = [ref |-> 0, val |-> 0]
  /\ computedDirty = [c \in Computeds |-> TRUE]
  /\ computedMemo = [c \in Computeds |-> NoValue]
  /\ derives = [c \in Computeds |-> 0]
  /\ unread = [c \in Computeds |-> 0]
  /\ lastRead = [c |-> "none", unread |-> 0, runs |-> 0]
  /\ lastWrite = [ref |-> 0, equal |-> FALSE]
  /\ writes = 0

RenderInit ==
  /\ rectangle = [o \in Obj |->
        CASE o = "t1" -> Rect(1, 0, 2, 1)
          [] o = "bx" -> Rect(0, 0, BoxSize, BoxSize)
          [] o = "t2" -> Rect(0, 0, 2, 1)]
  /\ previousRectangle = [o \in Obj |-> NoRect]
  /\ value = [o \in TextObj |-> IF o = "t1" THEN <<"b", "a">> ELSE <<"a", "b">>]
  /\ previousValue = value
  /\ filler = "#"
  /\ rendered = [o \in Obj |-> FALSE]
  /\ rerenderCells = [o \in Obj |-> NoRows]
  /\ omitCells = [o \in Obj |-> NoRows]
  /\ objectsUnder = [o \in Obj |-> {}]
  /\ view \in {NoRect, TheView}
  /\ faulty \in {{}} \cup {{o} : o \in Obj}
  /\ frameBuffer = [p \in AllPos |-> Empty]
  /\ rerenderQueue = {}
  /\ output = {}
  /\ label = <<"b", "a">>
  /\ counter = 0
  /\ subscribed = FALSE
  /\ pending = {}
  /\ pc = "idle"
  /\ idx = 0
  /\ settleIter = 0
  /\ result = "none"
  /\ errors = {}
  /\ painted = {}
  /\ flushed = FALSE
  /\ ticks = 0
  /\ mut = 0

QueueInit ==
  /\ queuedBy = [p \in {q \in AllPos : InBounds(q)} |-> <<>>]
  /\ renderCalls = 0

\* ------------------------------------------------------------ component registry
\* the TuiInstance as a parent object; components are their ids 0, 1, ...
TuiInstance == 0 - 1
Priorities == {0, 1}
Events == {"key"}
Range(seq) == {seq[i] : i \in 1..Len(seq)}

RegistryInit ==
  /\ components = <<>>
  /\ children = [o \in {TuiInstance} |-> <<>>]
  /\ parent = [c \in {} |-> TuiInstance]
  /\ drawPriority = [c \in {} |-> 0]
  /\ handlers = [c \in {} |-> {}]
  /\ componentId = 0
  /\ removed = {}

\* ------------------------------------------------------------ textbox
\* lines a textbox may hold, and its values: one line or more
TbLines == {<<>>, <<"a">>, <<"b">>, <<"a", "b">>, <<"b", "a">>}
TbValues == UNION {[1..n -> TbLines] : n \in 1..MaxLines}
TbRectangles == {Rect(0, 0, w, h) : w \in 1..2, h \in 1..MaxLines}
\* a key event; no event yet
Event(key, shift, ctrl, meta) == [key |-> key, shift |-> shift, ctrl |-> ctrl, meta |-> meta]
NoEvent == Event("none", FALSE, FALSE, FALSE)

\* createTextbox(object, options) with options.value left out
TextboxInit ==
  /\ tbValue = <<<<>>>>
  /\ position = [x |-> 0, y |-> 0]
  /\ hidden = FALSE
  /\ tbRectangle = Rect(0, 0, 1, 1)
  /\ selected = [item |-> "none", focused |-> FALSE, active |-> FALSE]
  /\ drawn = <<>>
  /\ multiline = FALSE
  /\ emitted = <<>>
  /\ lastEvent = NoEvent
  /\ previousEvent = NoEvent
  /\ startPosition = [x |-> 0, y |-> 0]

\* ------------------------------------------------------------ stylers
StyleKeys == {"foreground", "background"}
NoStyle == [k \in {} |-> ""]
\* a TuiStyler: the base colours, and what its focused and active parts set
Stylers ==
  {[base |-> [k \in StyleKeys |-> k], focused |-> f, active |-> a] :
     f \in {NoStyle, [k \in {"foreground"} |-> "focused"], [k \in StyleKeys |-> "focused"]},
     a \in {NoStyle, [k \in {"background"} |-> "active"], [k \in StyleKeys |-> "active"]}}
\* options.focused / options.active: left out, or a value with force (left out: false)
StatusOptions ==
  {[given |-> FALSE, value |-> FALSE, force |-> FALSE]} \cup
  {[given |-> TRUE, value |-> v, force |-> f] : v \in BOOLEAN, f \in BOOLEAN}
\* the textbox, and the box createTextbox puts into it
StyledComponents == {"textbox", "box"}
focusedWithin(c) == IF c = "box" THEN {"textbox"} ELSE {}

StylerInit ==
  /\ component = "textbox"
  /\ options = [focused |-> [given |-> FALSE, value |-> FALSE, force |-> FALSE],
                active |-> [given |-> FALSE, value |-> FALSE, force |-> FALSE]]
  /\ styler = [base |-> [k \in StyleKeys |-> k], focused |-> NoStyle, active |-> NoStyle]
  /\ currentStyler = NoStyle

Idle == RenderInit /\ view = NoRect /\ faulty = {}

Init == RenderInit /\ SignalInit /\ QueueInit /\ RegistryInit /\ TextboxInit /\ StylerInit

\* ------------------------------------------------------------ DrawObject
\* queueRerender(row, column), for a batch of cells
queueRerender(m, cells) == AddCells(m, cells)

\* a render() that replaces the output queue of the rows it paints
PaintResultReplacingRow(fb, rq, rc, om, failed) ==
  [fb |-> fb, rq |-> {p \in rerenderQueue : \A q \in rq : q[1] # p[1]} \cup rq,
   rc |-> rc, om |-> om, failed |-> failed]

PaintResult(fb, rq, rc, om, failed) ==
  [fb |-> fb, rq |-> rerenderQueue \cup rq, rc |-> rc, om |-> om, failed |-> failed]

WriteCells(o, cells, chars) ==
  [p \in AllPos |-> IF p \in cells THEN Styled(o, chars[p]) ELSE frameBuffer[p]]

\* ------------------------------------------------------------ TextObject
\* an update() whose loop runs over the previous value's indices
TextUpdateCellsPreviousLength(o) ==
  IF value[o] = previousValue[o] \/ ~rendered[o] THEN {}
  ELSE {<<rectangle[o].row, rectangle[o].column + i>> :
          i \in {j \in 0..(Len(previousValue[o]) - 1) :
                   CharAt(value[o], j) # CharAt(previousValue[o], j)}}

\* the cells update() queues for rerender
TextUpdateCells(o) ==
  IF value[o] = previousValue[o] \/ ~rendered[o] THEN {}
  ELSE {<<rectangle[o].row, rectangle[o].column + i>> :
          i \in {j \in 0..(Len(value[o]) - 1) :
                   CharAt(value[o], j) # CharAt(previousValue[o], j)}}

\* rectangle after update()
TextUpdateRectangle(o) ==
  IF value[o] = previousValue[o] THEN rectangle[o]
  ELSE [rectangle[o] EXCEPT !.width = textWidth(value[o]), !.height = 1]

\* updateMovement() without the loop over the previous rectangle
TextUpdateMovementNoUncover(o) ==
  LET rect == rectangle[o]
      prev == previousRectangle[o]
      under == objectsUnder[o]
  IN IF prev # NoRect /\ ~rectangleEquals(rect, prev)
     THEN LET inter == rectangleIntersection(rect, prev)
              InInter(r, c) == inter # NoRect /\ fitsInRectangle(c, r, inter)
              newCells == {<<rect.row, c>> :
                             c \in rect.column..(rect.column + rect.width - 1)}
              newOutside == {p \in newCells : ~InInter(p[1], p[2])}
          IN [u \in Obj |->
                queueRerender(rerenderCells[u],
                   (IF u = o THEN newCells ELSE {}) \cup
                   (IF u \in under THEN newOutside ELSE {}))]
     ELSE rerenderCells

\* updateMovement() that queues its own rerender only outside the intersection
TextUpdateMovementOutsideOnly(o) ==
  LET rect == rectangle[o]
      prev == previousRectangle[o]
      under == objectsUnder[o]
  IN IF prev # NoRect /\ ~rectangleEquals(rect, prev)
     THEN LET inter == rectangleIntersection(rect, prev)
              InInter(r, c) == inter # NoRect /\ fitsInRectangle(c, r, inter)
              oldCells == {<<prev.row, c>> :
                             c \in {x \in prev.column..(prev.column + prev.width - 1) :
                                      ~InInter(prev.row, x)}}
              newCells == {<<rect.row, c>> :
                             c \in rect.column..(rect.column + rect.width - 1)}
              newOutside == {p \in newCells : ~InInter(p[1], p[2])}
          IN [u \in Obj |->
                queueRerender(rerenderCells[u],
                   (IF u = o THEN newOutside ELSE {}) \cup
                   (IF u \in under THEN oldCells \cup newOutside ELSE {}))]
     ELSE rerenderCells

\* rerenderCells of every object after o.updateMovement()
TextUpdateMovement(o) ==
  LET rect == rectangle[o]
      prev == previousRectangle[o]
      under == objectsUnder[o]
  IN IF prev # NoRect /\ ~rectangleEquals(rect, prev)
     THEN LET inter == rectangleIntersection(rect, prev)
              InInter(r, c) == inter # NoRect /\ fitsInRectangle(c, r, inter)
              oldCells == {<<prev.row, c>> :
                             c \in {x \in prev.column..(prev.column + prev.width - 1) :
                                      ~InInter(prev.row, x)}}
              newCells == {<<rect.row, c>> :
                             c \in rect.column..(rect.column + rect.width - 1)}
              newOutside == {p \in newCells : ~InInter(p[1], p[2])}
          IN [u \in Obj |->
                queueRerender(rerenderCells[u],
                   (IF u = o THEN newCells ELSE {}) \cup
                   (IF u \in under THEN oldCells \cup newOutside ELSE {}))]
     ELSE rerenderCells

\* render() that paints over the cells a higher object has claimed
TextRenderIgnoringOmit(o) ==
  LET rect == rectangle[o]
      row == rect.row
      start == rect.column
      cols == {c \in {start + x : x \in 0..(Len(value[o]) - 1)} : c >= 0 /\ c < Columns}
      cells == {<<row, c>> : c \in cols}
      Ch(p) == CharAt(value[o], p[2] - start)
  IN IF row < 0 \/ row >= Rows
     THEN PaintResult(frameBuffer, {}, rerenderCells[o], omitCells[o], FALSE)
     ELSE IF cols # {} /\ o \in faulty
     THEN PaintResult(frameBuffer, {}, rerenderCells[o], omitCells[o], TRUE)
     ELSE PaintResult(WriteCells(o, cells, [p \in cells |-> Ch(p)]), cells, rerenderCells[o],
                      ClearRow(omitCells[o], row), FALSE)

TextRender(o) ==
  LET rect == rectangle[o]
      row == rect.row
      start == rect.column
      om == omitCells[o]
      omitColumns == RowOf(om, row)
      cols == {c \in {start + x : x \in 0..(Len(value[o]) - 1)} :
                 c >= 0 /\ c < Columns /\ c \notin omitColumns}
      cells == {<<row, c>> : c \in cols}
      Ch(p) == CharAt(value[o], p[2] - start)
  IN IF row < 0 \/ row >= Rows
     THEN PaintResult(frameBuffer, {}, rerenderCells[o], om, FALSE)
     ELSE IF HasRow(om, row) /\ Cardinality(omitColumns) = rect.width
     THEN PaintResult(frameBuffer, {}, rerenderCells[o], ClearRow(om, row), FALSE)
     ELSE IF cols # {} /\ o \in faulty
     THEN PaintResult(frameBuffer, {}, rerenderCells[o], om, TRUE)
     ELSE PaintResult(WriteCells(o, cells, [p \in cells |-> Ch(p)]), cells, rerenderCells[o],
                      ClearRow(om, row), FALSE)

\* a rerender() that paints every column of the rectangle, queued or not
TextRerenderWhole(o) ==
  LET rect == rectangle[o]
      row == rect.row
      rc == rerenderCells[o]
      om == omitCells[o]
      omitColumns == RowOf(om, row)
      cols == {c \in rect.column..(rect.column + rect.width - 1) :
                 ~(c < 0 \/ c >= Columns \/ c \in omitColumns)}
      cells == {<<row, c>> : c \in cols}
      Ch(p) == CharAt(value[o], p[2] - rect.column)
  IN IF ~HasRow(rc, row)
     THEN PaintResult(frameBuffer, {}, rc, om, FALSE)
     ELSE IF HasRow(om, row) /\ Cardinality(omitColumns) = rect.width
     THEN PaintResult(frameBuffer, {}, rc, ClearRow(om, row), FALSE)
     ELSE IF row < 0 \/ row >= Rows
     THEN PaintResult(frameBuffer, {}, rc, om, FALSE)
     ELSE IF cols # {} /\ o \in faulty
     THEN PaintResult(frameBuffer, {}, rc, om, TRUE)
     ELSE PaintResult(WriteCells(o, cells, [p \in cells |-> Ch(p)]), cells, ClearRow(rc, row),
                      ClearRow(om, row), FALSE)

TextRerender(o) ==
  LET rect == rectangle[o]
      row == rect.row
      rc == rerenderCells[o]
      om == omitCells[o]
      rerenderColumns == RowOf(rc, row)
      omitColumns == RowOf(om, row)
      cols == {c \in rerenderColumns :
                 ~(\/ c < 0 \/ c >= Columns
                   \/ c < rect.column \/ c >= rect.column + rect.width
                   \/ c \in omitColumns)}
      cells == {<<row, c>> : c \in cols}
      Ch(p) == CharAt(value[o], p[2] - rect.column)
  IN IF ~HasRow(rc, row)
     THEN PaintResult(frameBuffer, {}, rc, om, FALSE)
     ELSE IF HasRow(om, row) /\ Cardinality(omitColumns) = rect.width
     THEN PaintResult(frameBuffer, {}, rc, ClearRow(om, row), FALSE)
     ELSE IF row < 0 \/ row >= Rows
     THEN PaintResult(frameBuffer, {}, rc, om, FALSE)
     ELSE IF cols # {} /\ o \in faulty
     THEN PaintResult(frameBuffer, {}, rc, om, TRUE)
     ELSE PaintResult(WriteCells(o, cells, [p \in cells |-> Ch(p)]), cells, ClearRow(rc, row),
                      ClearRow(om, row), FALSE)

\* ------------------------------------------------------------ BoxObject
\* rerender() of a box whose rerenderCells are rc
BoxRerender(o, rc) ==
  LET rect == rectangle[o]
      om == omitCells[o]
      rowRange0 == Min(rect.row + rect.height, Rows)
      columnRange0 == Min(rect.column + rect.width, Columns)
      rowRange == IF view # NoRect THEN Min(rowRange0, view.row + view.height)
                  ELSE rowRange0
      columnRange == IF view # NoRect THEN Min(columnRange0, view.column + view.width)
                     ELSE columnRange0
      \* rerenderCells.length: one more than the largest non-negative index
      length == IF \E r \in DOMAIN rc : r >= 0
                THEN 1 + CHOOSE r \in DOMAIN rc : \A q \in DOMAIN rc : q <= r
                ELSE 0
      visited == {r \in DOMAIN rc : r >= rect.row /\ r < length /\ r < rowRange}
      AllOmitted(r) == HasRow(om, r) /\ Cardinality(om[r]) = rect.width
      Cols(r) == {c \in rc[r] :
                    ~(c \in RowOf(om, r) \/ c < rect.column \/ c >= columnRange)}
      throwing == {r \in visited : o \in faulty /\ ~AllOmitted(r) /\ Cols(r) # {}}
      done == {r \in visited : \A t \in throwing : r < t}
      cells == UNION {{<<r, c>> : c \in Cols(r)} : r \in {x \in done : ~AllOmitted(x)}}
      Ch(p) == filler
  IN PaintResult(WriteCells(o, cells, [p \in cells |-> Ch(p)]), cells,
                 [r \in DOMAIN rc |-> IF r \in done /\ ~AllOmitted(r) THEN {} ELSE rc[r]],
                 [r \in DOMAIN om |-> IF r \in done THEN {} ELSE om[r]],
                 throwing # {})

\* render() of a box: queue every visible cell of the rectangle, then rerender()
BoxRender(o) ==
  LET visible == {p \in CellsOf(rectangle[o]) :
                    InBounds(p) /\ (view # NoRect => fitsInRectangle(p[2], p[1], view))}
  IN BoxRerender(o, queueRerender(rerenderCells[o], visible))

\* rerenderCells of every object after the movement handling of a box
BoxUpdateMovement(o) ==
  LET rect == rectangle[o]
      prev == previousRectangle[o]
  IN IF prev # NoRect /\ ~rectangleEquals(rect, prev)
     THEN LET inter == rectangleIntersection(rect, prev)
              uncovered == IF inter = NoRect THEN CellsOf(prev)
                           ELSE CellsOf(prev) \ CellsOf(inter)
          IN [u \in Obj |->
                queueRerender(rerenderCells[u],
                   (IF u = o THEN CellsOf(rect) ELSE {}) \cup
                   (IF u \in objectsUnder[o] THEN uncovered ELSE {}))]
     ELSE rerenderCells

\* ------------------------------------------------------------ compositor
\* the objects known to render underneath o
UpdateIntersections(o) ==
  {u \in Obj : zIndex(u) < zIndex(o) /\
                rectangleIntersection(rectangle[o], rectangle[u]) # NoRect}

\* the cells of u that o claims
OmitClaim(o, u) ==
  IF zIndex(u) < zIndex(o) /\ rectangleIntersection(rectangle[o], rectangle[u]) # NoRect
  THEN CellsOf(rectangleIntersection(rectangle[o], rectangle[u]))
  ELSE {}

\* render() of an object not yet rendered, rerender() otherwise
Paint(o) ==
  IF Kind(o) = "text"
  THEN IF rendered[o] THEN TextRerender(o) ELSE TextRender(o)
  ELSE IF rendered[o] THEN BoxRerender(o, rerenderCells[o]) ELSE BoxRender(o)

\* flush: one run per maximal group of contiguous queued columns of one style
Queued(row) == {c \in 0..(Columns - 1) : <<row, c>> \in rerenderQueue}
SameRun(row, a, b) ==
  \A k \in a..b : k \in Queued(row) /\ frameBuffer[<<row, k>>][1] = frameBuffer[<<row, a>>][1]
RunEnd(row, c) ==
  CHOOSE e \in c..(Columns - 1) :
    SameRun(row, c, e) /\ (e + 1 > Columns - 1 \/ ~SameRun(row, c, e + 1))
\* a flush that emits one run per row, from the first queued column to the last
FlushRunsBridging ==
  {[row |-> r, column |-> c,
    cells |-> [k \in 1..((CHOOSE e \in Queued(r) : \A x \in Queued(r) : x <= e) - c + 1) |->
                 frameBuffer[<<r, c + k - 1>>]]] :
     <<r, c>> \in {p \in (0..(Rows - 1)) \X (0..(Columns - 1)) :
                     p[2] \in Queued(p[1]) /\ \A x \in Queued(p[1]) : p[2] <= x}}

FlushRuns ==
  {[row |-> r, column |-> c,
    cells |-> [k \in 1..(RunEnd(r, c) - c + 1) |-> frameBuffer[<<r, c + k - 1>>]]] :
     <<r, c>> \in {p \in (0..(Rows - 1)) \X (0..(Columns - 1)) :
                     p[2] \in Queued(p[1]) /\
                     (p[2] = 0 \/ ~SameRun(p[1], p[2] - 1, p[2]))}}

\* ------------------------------------------------------------ external mutations
CanMutate == pc = "idle" /\ mut < MaxMut /\ ticks < MaxTicks

SetValue(v) ==
  /\ CanMutate
  /\ v # value["t2"]
  /\ value' = [value EXCEPT !["t2"] = v]
  /\ mut' = mut + 1
  /\ UNCHANGED <<rectangle, previousRectangle, previousValue, filler, rendered,
                 rerenderCells, omitCells, objectsUnder, view, faulty,
                 canvasVars, graphVars, tickVars>>
  /\ UNCHANGED sideVars

\* write(value) of the label signal: schedules its effect when the value changed
WriteLabel(v) ==
  /\ CanMutate
  /\ label' = v
  /\ pending' = IF v # label THEN pending \cup {"label"} ELSE pending
  /\ mut' = mut + 1
  /\ UNCHANGED <<objVars, canvasVars, counter, subscribed, tickVars>>
  /\ UNCHANGED sideVars

Move(o, dr, dc) ==
  /\ CanMutate
  /\ rectangle[o].row + dr \in PosRows
  /\ rectangle[o].column + dc \in PosCols
  /\ rectangle' = [rectangle EXCEPT ![o].row = @ + dr, ![o].column = @ + dc]
  /\ mut' = mut + 1
  /\ UNCHANGED <<previousRectangle, value, previousValue, filler, rendered,
                 rerenderCells, omitCells, objectsUnder, view, faulty,
                 canvasVars, graphVars, tickVars>>
  /\ UNCHANGED sideVars

\* write(value) of the box's filler signal
SetFiller(f) ==
  /\ CanMutate
  /\ filler' = f
  /\ pending' = IF f # filler THEN pending \cup {"filler"} ELSE pending
  /\ mut' = mut + 1
  /\ UNCHANGED <<rectangle, previousRectangle, value, previousValue, rendered,
                 rerenderCells, omitCells, objectsUnder, view, faulty,
                 canvasVars, label, counter, subscribed, tickVars>>
  /\ UNCHANGED sideVars

\* subscribe(fn) of an effect that writes the signal it reads; it runs once at once
SubscribeLoop ==
  /\ CanMutate
  /\ ~subscribed
  /\ subscribed' = TRUE
  /\ counter' = (counter + 1) % CounterMod
  /\ pending' = pending \cup {"loop"}
  /\ mut' = mut + 1
  /\ UNCHANGED <<objVars, canvasVars, label, tickVars>>
  /\ UNCHANGED sideVars

DisposeLoop ==
  /\ CanMutate
  /\ subscribed
  /\ subscribed' = FALSE
  /\ pending' = pending \ {"loop"}
  /\ mut' = mut + 1
  /\ UNCHANGED <<objVars, canvasVars, label, counter, tickVars>>
  /\ UNCHANGED sideVars

\* ------------------------------------------------------------ the tick
RunTick ==
  /\ pc = "idle"
  /\ ticks < MaxTicks
  /\ pc' = "settle"
  /\ ticks' = ticks + 1
  /\ settleIter' = 0
  /\ result' = "running"
  /\ errors' = {}
  /\ painted' = {}
  /\ flushed' = FALSE
  /\ UNCHANGED <<objVars, canvasVars, graphVars, idx, mut>>
  /\ UNCHANGED sideVars

\* settle: run one pending effect
RunEffect(e) ==
  /\ pc = "settle"
  /\ e \in pending
  /\ settleIter < MaxSettleIter
  /\ settleIter' = settleIter + 1
  /\ value' = IF e = "label" THEN [value EXCEPT !["t1"] = label] ELSE value
  /\ rerenderCells' =
       IF e = "filler"
       THEN [rerenderCells EXCEPT
               !["bx"] = queueRerender(@, CellsOf(rectangle["bx"]))]
       ELSE rerenderCells
  /\ counter' = IF e = "loop" THEN (counter + 1) % CounterMod ELSE counter
  /\ pending' = IF e = "loop" /\ counter' # counter THEN pending ELSE pending \ {e}
  /\ UNCHANGED <<rectangle, previousRectangle, previousValue, filler, rendered,
                 omitCells, objectsUnder, view, faulty, canvasVars, label, subscribed,
                 pc, idx, result, errors, painted, flushed, ticks, mut>>
  /\ UNCHANGED sideVars

\* a compositor that carries on with the frame when the iteration bound is exceeded
DivergeAndPaint ==
  /\ pc = "settle"
  /\ pending # {}
  /\ settleIter >= MaxSettleIter
  /\ result' = "ReactiveDivergence"
  /\ pc' = "update"
  /\ idx' = 1
  /\ UNCHANGED <<objVars, canvasVars, graphVars, settleIter, errors, painted,
                 flushed, ticks, mut>>
  /\ UNCHANGED sideVars

\* settle: the iteration bound is exceeded
Diverge ==
  /\ pc = "settle"
  /\ pending # {}
  /\ settleIter >= MaxSettleIter
  /\ result' = "ReactiveDivergence"
  /\ pc' = "idle"
  /\ UNCHANGED <<objVars, canvasVars, graphVars, idx, settleIter, errors, painted,
                 flushed, ticks, mut>>
  /\ UNCHANGED sideVars

\* a compositor that starts the geometry pass while effects are pending
SettledWithPending ==
  /\ pc = "settle"
  /\ pc' = "update"
  /\ idx' = 1
  /\ UNCHANGED <<objVars, canvasVars, graphVars, settleIter, result, errors, painted,
                 flushed, ticks, mut>>
  /\ UNCHANGED sideVars

\* settle: no effect is pending
Settled ==
  /\ pc = "settle"
  /\ pending = {}
  /\ pc' = "update"
  /\ idx' = 1
  /\ UNCHANGED <<objVars, canvasVars, graphVars, settleIter, result, errors, painted,
                 flushed, ticks, mut>>
  /\ UNCHANGED sideVars

\* geometry pass: update() of the next object
UpdateStep ==
  /\ pc = "update"
  /\ LET o == drawnObjects[idx]
     IN IF Kind(o) = "text"
        THEN /\ rerenderCells' =
                  [rerenderCells EXCEPT ![o] = queueRerender(@, TextUpdateCells(o))]
             /\ rectangle' = [rectangle EXCEPT ![o] = TextUpdateRectangle(o)]
             /\ previousValue' = [previousValue EXCEPT ![o] = value[o]]
        ELSE UNCHANGED <<rerenderCells, rectangle, previousValue>>
  /\ pc' = "movement"
  /\ UNCHANGED <<previousRectangle, value, filler, rendered, omitCells, objectsUnder,
                 view, faulty, canvasVars, graphVars, idx, settleIter, result, errors,
                 painted, flushed, ticks, mut>>
  /\ UNCHANGED sideVars

\* geometry pass: movement handling of the same object
MovementStep ==
  /\ pc = "movement"
  /\ LET o == drawnObjects[idx]
     IN rerenderCells' =
          IF Kind(o) = "text" THEN TextUpdateMovement(o) ELSE BoxUpdateMovement(o)
  /\ IF idx < Len(drawnObjects)
     THEN pc' = "update" /\ idx' = idx + 1
     ELSE pc' = "intersect" /\ idx' = 0
  /\ UNCHANGED <<rectangle, previousRectangle, value, previousValue, filler, rendered, omitCells,
                 objectsUnder, view, faulty, canvasVars, graphVars, settleIter, result,
                 errors, painted, flushed, ticks, mut>>
  /\ UNCHANGED sideVars

\* geometry pass, last step: previous_rectangle = rectangle, and which objects lie
\* underneath which
IntersectStep ==
  /\ pc = "intersect"
  /\ previousRectangle' = rectangle
  /\ objectsUnder' = [o \in Obj |-> UpdateIntersections(o)]
  /\ pc' = "paint"
  /\ idx' = 1
  /\ UNCHANGED <<rectangle, value, previousValue, filler, rendered,
                 rerenderCells, omitCells, view, faulty, canvasVars, graphVars,
                 settleIter, result, errors, painted, flushed, ticks, mut>>
  /\ UNCHANGED sideVars

\* a paint pass that a failing render() or rerender() aborts
PaintStepAborting ==
  /\ pc = "paint"
  /\ LET o == PaintOrder[idx]
         res == Paint(o)
     IN /\ frameBuffer' = res.fb
        /\ rerenderQueue' = res.rq
        /\ rerenderCells' = [rerenderCells EXCEPT ![o] = res.rc]
        /\ omitCells' = [u \in Obj |->
                           IF u = o THEN res.om
                           ELSE queueRerender(omitCells[u], OmitClaim(o, u))]
        /\ rendered' = [rendered EXCEPT ![o] = @ \/ ~res.failed]
        /\ errors' = IF res.failed THEN errors \cup {o} ELSE errors
        /\ painted' = painted \cup {o}
        /\ IF res.failed
           THEN pc' = "idle" /\ idx' = 0 /\ result' = "RenderFailure"
           ELSE /\ result' = result
                /\ IF idx < Len(PaintOrder)
                   THEN pc' = "paint" /\ idx' = idx + 1
                   ELSE pc' = "flush" /\ idx' = 0
  /\ UNCHANGED <<rectangle, previousRectangle, value, previousValue, filler,
                 objectsUnder, view, faulty, output, graphVars, settleIter,
                 flushed, ticks, mut>>
  /\ UNCHANGED sideVars

\* paint pass: the next object by descending z-index paints and claims its cells
PaintStep ==
  /\ pc = "paint"
  /\ LET o == PaintOrder[idx]
         res == Paint(o)
     IN /\ frameBuffer' = res.fb
        /\ rerenderQueue' = res.rq
        /\ rerenderCells' = [rerenderCells EXCEPT ![o] = res.rc]
        /\ omitCells' = [u \in Obj |->
                           IF u = o THEN res.om
                           ELSE queueRerender(omitCells[u], OmitClaim(o, u))]
        /\ rendered' = [rendered EXCEPT ![o] = @ \/ ~res.failed]
        /\ errors' = IF res.failed THEN errors \cup {o} ELSE errors
        /\ painted' = painted \cup {o}
  /\ IF idx < Len(PaintOrder)
     THEN pc' = "paint" /\ idx' = idx + 1
     ELSE pc' = "flush" /\ idx' = 0
  /\ UNCHANGED <<rectangle, previousRectangle, value, previousValue, filler,
                 objectsUnder, view, faulty, output, graphVars, settleIter, result,
                 flushed, ticks, mut>>
  /\ UNCHANGED sideVars

Flush ==
  /\ pc = "flush"
  /\ output' = FlushRuns
  /\ rerenderQueue' = {}
  /\ omitCells' = [o \in Obj |-> ClearAll(omitCells[o])]
  /\ flushed' = TRUE
  /\ result' = IF errors = {} THEN "ok" ELSE "RenderFailure"
  /\ pc' = "idle"
  /\ UNCHANGED <<rectangle, previousRectangle, value, previousValue, filler, rendered,
                 rerenderCells, objectsUnder, view, faulty, frameBuffer, graphVars, idx,
                 settleIter, errors, painted, ticks, mut>>
  /\ UNCHANGED sideVars

Next ==
  \/ \E v \in Values : SetValue(v)
  \/ \E v \in Values : WriteLabel(v)
  \/ \E o \in Obj : \E d \in {<<0, 1>>, <<0, 0 - 1>>, <<1, 0>>, <<0 - 1, 0>>} :
        Move(o, d[1], d[2])
  \/ \E f \in Fillers : SetFiller(f)
  \/ SubscribeLoop
  \/ DisposeLoop
  \/ RunTick
  \/ \E e \in {"label", "filler", "loop"} : RunEffect(e)
  \/ Diverge
  \/ Settled
  \/ UpdateStep
  \/ MovementStep
  \/ IntersectStep
  \/ PaintStep
  \/ Flush

Spec == Init /\ [][Next]_vars

\* A tick is not interruptible: once started, its steps run to the end.
TickStep ==
  \/ \E e \in {"label", "filler", "loop"} : RunEffect(e)
  \/ Diverge
  \/ Settled
  \/ UpdateStep
  \/ MovementStep
  \/ IntersectStep
  \/ PaintStep
  \/ Flush
FairSpec == Spec /\ WF_vars(TickStep)

\* ------------------------------------------------------------ reactive graph: operations
\* write(value) compares by identity
IdentityEquals(a, b) == a.ref = b.ref

\* write(value) compares by value, deep, not by identity
ValueEquals(a, b) == a.val = b.val

\* a write that recomputes every dependent Computed at once
RecomputeOnWrite(new) ==
  [dirty |-> [c \in Computeds |-> FALSE],
   memo |-> [c \in Computeds |->
               IF c = "c1" THEN Derive("c1", new.val)
               ELSE Derive("c2", Derive("c1", new.val))],
   derives |-> [c \in Computeds |-> derives[c] + 1]]

\* a changed write marks every dependent Computed dirty, transitively
Invalidate(new) ==
  [dirty |-> [c \in Computeds |-> TRUE], memo |-> computedMemo, derives |-> derives]

\* write(value) of the Cell
WriteCell(r, v) ==
  /\ pc = "idle"
  /\ writes < MaxWrites
  /\ r = cellValue.ref => v = cellValue.val
  /\ writes' = writes + 1
  /\ LET new == [ref |-> r, val |-> v]
     IN IF ValueEquals(new, cellValue)
        THEN /\ lastWrite' = [ref |-> r, equal |-> TRUE]
             /\ UNCHANGED <<cellValue, computedDirty, computedMemo, derives, unread, pending>>
        ELSE /\ lastWrite' = [ref |-> r, equal |-> FALSE]
             /\ cellValue' = new
             /\ computedDirty' = Invalidate(new).dirty
             /\ computedMemo' = Invalidate(new).memo
             /\ derives' = Invalidate(new).derives
             /\ unread' = [c \in Computeds |-> unread[c] + 1]
             /\ pending' = pending \cup {"queueBox"}
  /\ UNCHANGED <<objVars, canvasVars, label, counter, subscribed, tickVars, mut, lastRead,
                 besidesSignal>>

\* reading the Computed c: a dirty Computed evaluates, after the dirty ones it reads
ReadComputed(c) ==
  /\ pc = "idle"
  /\ LET ran == IF computedDirty[c] THEN {x \in Upstream(c) : computedDirty[x]} ELSE {}
         memo1 == IF "c1" \in ran THEN Derive("c1", cellValue.val) ELSE computedMemo["c1"]
         memo2 == IF "c2" \in ran THEN Derive("c2", memo1) ELSE computedMemo["c2"]
     IN /\ computedMemo' = [x \in Computeds |-> IF x = "c1" THEN memo1 ELSE memo2]
        /\ computedDirty' = [x \in Computeds |-> computedDirty[x] /\ x \notin ran]
        /\ lastRead' = [c |-> c, unread |-> unread[c],
                        runs |-> derives[c] + (IF c \in ran THEN 1 ELSE 0)]
        /\ derives' = [x \in Computeds |->
                         IF x \in Upstream(c) THEN 0
                         ELSE derives[x] + (IF x \in ran THEN 1 ELSE 0)]
        /\ unread' = [x \in Computeds |-> IF x \in Upstream(c) THEN 0 ELSE unread[x]]
  /\ UNCHANGED <<objVars, canvasVars, graphVars, tickVars, mut, cellValue, lastWrite, writes,
                 besidesSignal>>

\* the Effect tracking the Cell runs: it queues the box's rectangle for rerender
RunCellEffect ==
  /\ pc = "idle"
  /\ "queueBox" \in pending
  /\ pending' = pending \ {"queueBox"}
  /\ rerenderCells' = [rerenderCells EXCEPT
                         !["bx"] = queueRerender(@, CellsOf(rectangle["bx"]))]
  /\ UNCHANGED <<rectangle, previousRectangle, value, previousValue, filler, rendered,
                 omitCells, objectsUnder, view, faulty, canvasVars, label, counter,
                 subscribed, tickVars, mut, sideVars>>

GraphInit == Idle /\ SignalInit /\ QueueInit /\ RegistryInit /\ TextboxInit /\ StylerInit
GraphNext ==
  \/ \E r \in Refs : \E v \in CellValues : WriteCell(r, v)
  \/ \E c \in Computeds : ReadComputed(c)
  \/ RunCellEffect
GraphSpec == GraphInit /\ [][GraphNext]_vars

\* ------------------------------------------------------------ output queue and flush
\* a tick with no effect pending and no geometry to update gets to its paint pass
StartPaint ==
  /\ pc = "idle"
  /\ ticks < MaxTicks
  /\ pc' = "paint"
  /\ ticks' = ticks + 1
  /\ result' = "running"
  /\ flushed' = FALSE
  /\ queuedBy' = [p \in DOMAIN queuedBy |-> <<>>]
  /\ UNCHANGED <<objVars, canvasVars, graphVars, idx, settleIter, errors, painted, mut,
                 renderCalls, besidesQueue>>

\* one turn of the loop in render()/rerender() of an object with a character at p:
\* the styled character is stored and the cell is added to the output queue
RenderCell(o, p) ==
  /\ pc = "paint"
  /\ renderCalls < MaxQueueCalls
  /\ renderCalls' = renderCalls + 1
  /\ LET res == PaintResult(WriteCells(o, {p}, [q \in {p} |-> CharAt(value[o], 0)]), {p},
                            rerenderCells[o], omitCells[o], FALSE)
     IN /\ frameBuffer' = res.fb
        /\ rerenderQueue' = res.rq
  /\ queuedBy' = [queuedBy EXCEPT ![p] = Append(@, o)]
  /\ UNCHANGED <<objVars, output, graphVars, tickVars, mut, besidesQueue>>

\* the paint pass is over
EndPaint ==
  /\ pc = "paint"
  /\ pc' = "flush"
  /\ UNCHANGED <<objVars, canvasVars, graphVars, idx, settleIter, result, errors, painted,
                 flushed, ticks, mut, sideVars>>

FlushInit == Idle /\ SignalInit /\ QueueInit /\ RegistryInit /\ TextboxInit /\ StylerInit
FlushNext ==
  \/ StartPaint
  \/ \E o \in TextObj : \E p \in DOMAIN queuedBy : RenderCell(o, p)
  \/ EndPaint
  \/ Flush
FlushSpec == FlushInit /\ [][FlushNext]_vars

\* ------------------------------------------------------------ createComponent, removeComponent
\* array.filter(keep)
RECURSIVE Filter(_, _)
Filter(seq, keep) ==
  IF seq = <<>> THEN <<>>
  ELSE (IF Head(seq) \in keep THEN <<Head(seq)>> ELSE <<>>) \o Filter(Tail(seq), keep)

\* x put into a sorted list before the elements of its priority
InsertFirst(sorted, x, prio) ==
  LET before == {i \in 1..Len(sorted) : prio[sorted[i]] < prio[x]}
      n == Cardinality(before)
  IN SubSeq(sorted, 1, n) \o <<x>> \o SubSeq(sorted, n + 1, Len(sorted))

\* x put into a sorted list after the elements of its priority
InsertLast(sorted, x, prio) ==
  LET before == {i \in 1..Len(sorted) : prio[sorted[i]] <= prio[x]}
      n == Cardinality(before)
  IN SubSeq(sorted, 1, n) \o <<x>> \o SubSeq(sorted, n + 1, Len(sorted))

\* a sort by ascending priority that turns the order of equal priorities around
RECURSIVE SortReversingTies(_, _)
SortReversingTies(seq, prio) ==
  IF seq = <<>> THEN <<>>
  ELSE InsertFirst(SortReversingTies(SubSeq(seq, 1, Len(seq) - 1), prio), seq[Len(seq)], prio)

\* components.sort((b, a) => b.drawPriority - a.drawPriority): ascending and stable
RECURSIVE SortByPriority(_, _)
SortByPriority(seq, prio) ==
  IF seq = <<>> THEN <<>>
  ELSE InsertLast(SortByPriority(SubSeq(seq, 1, Len(seq) - 1), prio), seq[Len(seq)], prio)

\* c and, recursively, the children of c
RECURSIVE Subtree(_)
Subtree(c) == {c} \cup UNION {Subtree(x) : x \in Range(children[c])}

\* a removeComponent that does not recurse into the children
RemovedOnlyItself(c) == {c}

\* the components removeComponent(c) calls itself for
RemovedWith(c) == Subtree(c)

createComponent(object, priority) ==
  /\ pc = "idle"
  /\ componentId < MaxComponents
  /\ LET id == componentId
         prio == [c \in DOMAIN drawPriority \cup {id} |->
                    IF c = id THEN priority ELSE drawPriority[c]]
     IN /\ componentId' = componentId + 1
        /\ drawPriority' = prio
        /\ parent' = [c \in DOMAIN parent \cup {id} |-> IF c = id THEN object ELSE parent[c]]
        /\ handlers' = [c \in DOMAIN handlers \cup {id} |-> IF c = id THEN {} ELSE handlers[c]]
        /\ children' = [o \in DOMAIN children \cup {id} |->
                          IF o = id THEN <<>>
                          ELSE IF o = object THEN Append(children[o], id) ELSE children[o]]
        /\ components' = SortByPriority(Append(components, id), prio)
  /\ UNCHANGED <<objVars, canvasVars, graphVars, tickVars, mut, removed, besidesRegistry>>

\* component.on(event, handler)
on(c, event) ==
  /\ pc = "idle"
  /\ c \notin removed
  /\ event \notin handlers[c]
  /\ handlers' = [handlers EXCEPT ![c] = @ \cup {event}]
  /\ UNCHANGED <<objVars, canvasVars, graphVars, tickVars, mut, components, children, parent,
                 drawPriority, componentId, removed, besidesRegistry>>

removeComponent(c) ==
  /\ pc = "idle"
  /\ LET gone == RemovedWith(c)
         keep == (DOMAIN parent) \ gone
     IN /\ handlers' = [x \in DOMAIN handlers |-> IF x \in gone THEN {} ELSE handlers[x]]
        /\ children' = [o \in DOMAIN children |->
                          IF \E x \in gone : parent[x] = o
                          THEN Filter(children[o], keep) ELSE children[o]]
        /\ components' = Filter(components, keep)
        /\ removed' = removed \cup gone
  /\ UNCHANGED <<objVars, canvasVars, graphVars, tickVars, mut, parent, drawPriority,
                 componentId, besidesRegistry>>

RegistrySpecInit == Idle /\ SignalInit /\ QueueInit /\ RegistryInit /\ TextboxInit /\ StylerInit
\* components of any priority are created and removed
RegistryNext ==
  \/ \E object \in DOMAIN children : \E priority \in Priorities :
        createComponent(object, priority)
  \/ \E c \in DOMAIN parent : removeComponent(c)
RegistrySpec == RegistrySpecInit /\ [][RegistryNext]_vars

\* components of the default priority are created, handle events, and are removed
RemoveNext ==
  \/ \E object \in DOMAIN children : createComponent(object, 0)
  \/ \E c \in DOMAIN parent : \E event \in Events : on(c, event)
  \/ \E c \in DOMAIN parent : removeComponent(c)
RemoveSpec == RegistrySpecInit /\ [][RemoveNext]_vars

\* ------------------------------------------------------------ textbox: draw and cursor keys
\* "*".repeat(n)
Repeat(ch, n) == [k \in 1..n |-> ch]
\* line.slice(from), from >= 0
Slice(line, from) == IF from >= Len(line) THEN <<>> ELSE SubSeq(line, from + 1, Len(line))
\* while (textWidth(line) > width) line = line.slice(0, -1)
RECURSIVE FitWidth(_, _)
FitWidth(line, width) ==
  IF textWidth(line) > width THEN FitWidth(SubSeq(line, 1, Len(line) - 1), width) ELSE line

\* value?.[y]?.[x]
CharOfLine(v, x, y) ==
  IF y >= 0 /\ y < Len(v) THEN CharAt(v[y + 1], x) ELSE "undefined"

\* a draw() whose cursor shows the character under it
drawShowingCursor(v) ==
  LET rect == tbRectangle
      offsetX == IF position.x >= rect.width THEN position.x - rect.width + 1 ELSE 0
      offsetY == IF position.y >= rect.height THEN rect.height - position.y - 1 ELSE 0
      lo == Max(0, 0 - offsetY)
      hi == Min(Len(v) - 1, rect.height - offsetY - 1)
      Line(i) == FitWidth(Slice(IF hidden THEN Repeat("*", Len(v[i + 1])) ELSE v[i + 1],
                                offsetX), rect.width)
      texts == [k \in 1..(hi - lo + 1) |->
                  [kind |-> "text", column |-> rect.column, row |-> rect.row + lo + k - 1 + offsetY,
                   text |-> Line(lo + k - 1)]]
      currentCharacter == CharOfLine(v, position.x, position.y)
      cursor == [kind |-> "pixel",
                 column |-> rect.column + Min(position.x, rect.width - 1),
                 row |-> rect.row + Min(position.y, rect.height - 1),
                 text |-> <<IF currentCharacter # "undefined" THEN currentCharacter ELSE " ">>]
  IN texts \o (IF selected.item = "textbox" THEN <<cursor>> ELSE <<>>)

\* the drawText and drawPixel calls of draw() for a textbox whose value is v
draw(v) ==
  LET rect == tbRectangle
      offsetX == IF position.x >= rect.width THEN position.x - rect.width + 1 ELSE 0
      offsetY == IF position.y >= rect.height THEN rect.height - position.y - 1 ELSE 0
      lo == Max(0, 0 - offsetY)
      hi == Min(Len(v) - 1, rect.height - offsetY - 1)
      Line(i) == FitWidth(Slice(IF hidden THEN Repeat("*", Len(v[i + 1])) ELSE v[i + 1],
                                offsetX), rect.width)
      texts == [k \in 1..(hi - lo + 1) |->
                  [kind |-> "text", column |-> rect.column, row |-> rect.row + lo + k - 1 + offsetY,
                   text |-> Line(lo + k - 1)]]
      currentCharacter == CharOfLine(v, position.x, position.y)
      cursor == [kind |-> "pixel",
                 column |-> rect.column + Min(position.x, rect.width - 1),
                 row |-> rect.row + Min(position.y, rect.height - 1),
                 text |-> <<IF currentCharacter # "undefined"
                            THEN (IF hidden THEN "*" ELSE currentCharacter)
                            ELSE " ">>]
  IN texts \o (IF selected.item = "textbox" THEN <<cursor>> ELSE <<>>)

Draw ==
  /\ pc = "idle"
  /\ drawn' = draw(tbValue)
  /\ UNCHANGED <<objVars, canvasVars, graphVars, tickVars, mut, tbValue, position, hidden,
                 tbRectangle, selected, multiline, emitted, lastEvent, previousEvent,
                 startPosition,
                 besidesTextbox>>

\* position.x after the cursor has moved to line y
ClampX(y) == IF Len(tbValue[y + 1]) >= position.x THEN position.x ELSE Len(tbValue[y + 1])

CursorKeys == {"up", "down", "left", "right", "home", "end"}
\* the keys of the handler's switch (the single characters typed are Chars)
NamedKeys == CursorKeys \cup {"return", "backspace", "delete"}
\* the key events: every key with nothing held, no key, a key the handler does
\* not know, and a character and a named key with shift, ctrl or meta held
KeyEvents ==
  {Event(k, FALSE, FALSE, FALSE) : k \in NamedKeys \cup Chars \cup {"", "tab"}}
    \cup {Event(k, TRUE, FALSE, FALSE) : k \in {"a", "up"}}
    \cup {Event(k, FALSE, TRUE, FALSE) : k \in {"a", "up"}}
    \cup {Event(k, FALSE, FALSE, TRUE) : k \in {"a"}}

\* array.splice(start, deleteCount, ...items) on a copy
Splice(v, start, deleteCount, items) ==
  SubSeq(v, 1, Min(start, Len(v))) \o items \o SubSeq(v, start + deleteCount + 1, Len(v))
\* string.substring(a, b)
Substring(line, a, b) == SubSeq(line, Max(0, a) + 1, Min(Max(0, b), Len(line)))

\* up and down that keep position.x as it is
CursorKeepingColumn(key) ==
  [value |-> tbValue,
   position |->
     CASE key = "up" -> [position EXCEPT !.y = Max(0, position.y - 1)]
       [] key = "down" -> [position EXCEPT !.y = Min(position.y + 1, Len(tbValue) - 1)]
       [] key = "left" -> [position EXCEPT !.x = Max(0, position.x - 1)]
       [] key = "right" ->
            [position EXCEPT !.x = Min(position.x + 1, Len(tbValue[position.y + 1]))]
       [] key = "home" -> [position EXCEPT !.x = 0]
       [] key = "end" -> [position EXCEPT !.x = Len(tbValue[position.y + 1])]]

\* the keys that move the cursor
Cursor(key) ==
  [value |-> tbValue,
   position |->
     CASE key = "up" ->
            LET y == Max(0, position.y - 1) IN [x |-> ClampX(y), y |-> y]
       [] key = "down" ->
            LET y == Min(position.y + 1, Len(tbValue) - 1) IN [x |-> ClampX(y), y |-> y]
       [] key = "left" -> [position EXCEPT !.x = Max(0, position.x - 1)]
       [] key = "right" ->
            [position EXCEPT !.x = Min(position.x + 1, Len(tbValue[position.y + 1]))]
       [] key = "home" -> [position EXCEPT !.x = 0]
       [] key = "end" -> [position EXCEPT !.x = Len(tbValue[position.y + 1])]]

\* a single character typed at the cursor
Insert(key) ==
  LET line == tbValue[position.y + 1]
  IN [value |-> [tbValue EXCEPT ![position.y + 1] =
                   Substring(line, 0, position.x) \o <<key>> \o Substring(line, position.x, Len(line))],
      position |-> [position EXCEPT !.x = position.x + 1]]

\* case "return"
Return ==
  LET line == tbValue[position.y + 1]
  IN IF position.x = Len(line)
     THEN LET v == IF multiline THEN Splice(tbValue, position.y + 1, 0, <<<<>>>>) ELSE tbValue
              y == Min(position.y + 1, Len(v) - 1)
          IN [value |-> v, position |-> [x |-> Len(v[y + 1]), y |-> y]]
     ELSE LET start == Substring(line, 0, position.x)
              end == Substring(line, position.x, Len(line))
              cut == [tbValue EXCEPT ![position.y + 1] = start]
              v == IF multiline THEN Splice(cut, position.y + 1, 0, <<end>>) ELSE cut
          IN [value |-> v, position |-> [x |-> 0, y |-> Min(position.y + 1, Len(v) - 1)]]

\* a backspace that removes the character under the cursor
BackspaceAtCursor ==
  IF position.x = 0 /\ position.y # 0
  THEN LET y == Max(0, position.y - 1)
           start == tbValue[y + 1]
           end == SubSeq(tbValue, y + 2, Min(y + 2, Len(tbValue)))
           v == Splice(tbValue, y + 1, 1, <<>>)
       IN [value |-> [v EXCEPT ![y + 1] = start \o (IF end = <<>> THEN <<>> ELSE end[1])],
           position |-> [x |-> Len(start), y |-> y]]
  ELSE LET line == tbValue[position.y + 1]
       IN [value |-> [tbValue EXCEPT ![position.y + 1] =
                        Substring(line, 0, position.x) \o Substring(line, position.x + 1, Len(line))],
           position |-> [position EXCEPT !.x = Max(0, position.x - 1)]]

\* case "backspace": end is the array splice returns, start + end its one line
\* appended to start
Backspace ==
  IF position.x = 0 /\ position.y # 0
  THEN LET y == Max(0, position.y - 1)
           start == tbValue[y + 1]
           end == SubSeq(tbValue, y + 2, Min(y + 2, Len(tbValue)))
           v == Splice(tbValue, y + 1, 1, <<>>)
       IN [value |-> [v EXCEPT ![y + 1] = start \o (IF end = <<>> THEN <<>> ELSE end[1])],
           position |-> [x |-> Len(start), y |-> y]]
  ELSE LET line == tbValue[position.y + 1]
       IN [value |-> [tbValue EXCEPT ![position.y + 1] =
                        Substring(line, 0, position.x - 1) \o Substring(line, position.x, Len(line))],
           position |-> [position EXCEPT !.x = Max(0, position.x - 1)]]

\* case "delete": del is the array splice returns, the current line; it is put
\* back in front of the line that took its place, or alone past the last line
Delete ==
  LET line == tbValue[position.y + 1]
      v == Splice(tbValue, position.y, 1, <<>>)
  IN [value |->
        IF position.x = Len(line)
        THEN IF position.y < Len(v)
             THEN [v EXCEPT ![position.y + 1] = line \o v[position.y + 1]]
             ELSE Append(v, line)
        ELSE IF Len(line) = 0 THEN v
        ELSE [tbValue EXCEPT ![position.y + 1] =
                Substring(line, 0, position.x) \o Substring(line, position.x + 1, Len(line))],
      position |-> position]

\* a handler that does not look at shift
HandlesIgnoringShift(ev) ==
  /\ ev.key # ""
  /\ \/ ~ev.ctrl /\ ~ev.meta /\ ev.key \in Chars
     \/ ev.key \in NamedKeys

\* the events the handler acts on: a key, shift not held, and a single
\* character without ctrl and meta or a key of the switch
Handles(ev) ==
  /\ ev.key # "" /\ ~ev.shift
  /\ \/ ~ev.ctrl /\ ~ev.meta /\ ev.key \in Chars
     \/ ev.key \in NamedKeys

\* textbox.string() without the newlines: the lines one after the other
RECURSIVE Joined(_)
Joined(v) == IF v = <<>> THEN <<>> ELSE Head(v) \o Joined(Tail(v))

\* the "key" handler; characters are typed up to MaxChars in the value and lines
\* entered up to MaxLines
Key(ev) ==
  /\ pc = "idle"
  /\ (Handles(ev) /\ ev.key \in Chars /\ ~ev.ctrl /\ ~ev.meta) =>
        Len(Joined(tbValue)) < MaxChars
  /\ (Handles(ev) /\ ev.key = "return" /\ multiline) => Len(tbValue) < MaxLines
  /\ LET after ==
           IF ~Handles(ev) THEN [value |-> tbValue, position |-> position]
           ELSE IF ~ev.ctrl /\ ~ev.meta /\ ev.key \in Chars THEN Insert(ev.key)
           ELSE IF ev.key \in CursorKeys THEN Cursor(ev.key)
           ELSE IF ev.key = "return" THEN Return
           ELSE IF ev.key = "backspace" THEN Backspace
           ELSE IF ev.key = "delete" THEN Delete
           ELSE [value |-> tbValue, position |-> position]
     IN /\ tbValue' = after.value
        /\ position' = after.position
  /\ emitted' = IF Handles(ev) THEN <<tbValue>> ELSE <<>>
  /\ drawn' = <<>>
  /\ UNCHANGED <<objVars, canvasVars, graphVars, tickVars, mut, hidden, tbRectangle,
                 selected, multiline, besidesTextbox>>

\* a key event, unrecorded: a cursor key between two draw() calls
CursorKey(key) ==
  /\ Key(Event(key, FALSE, FALSE, FALSE))
  /\ UNCHANGED <<lastEvent, previousEvent, startPosition>>

\* a key event, recorded with the event before it and the cursor it found
KeyEvent(ev) ==
  /\ Key(ev)
  /\ lastEvent' = ev
  /\ previousEvent' = lastEvent
  /\ startPosition' = position

\* a textbox as createTextbox leaves it, for every value, rectangle and selection
TextboxSpecInit ==
  /\ Idle /\ SignalInit /\ QueueInit /\ RegistryInit /\ StylerInit
  /\ tbValue \in TbValues
  /\ position = [x |-> 0, y |-> 0]
  /\ hidden \in BOOLEAN
  /\ tbRectangle \in TbRectangles
  /\ selected \in {[item |-> i, focused |-> FALSE, active |-> FALSE] : i \in {"none", "textbox"}}
  /\ drawn = <<>>
  /\ multiline = FALSE
  /\ emitted = <<>>
  /\ lastEvent = NoEvent
  /\ previousEvent = NoEvent
  /\ startPosition = [x |-> 0, y |-> 0]
TextboxNext ==
  \/ \E key \in CursorKeys : CursorKey(key)
  \/ Draw
TextboxSpec == TextboxSpecInit /\ [][TextboxNext]_vars

\* a textbox as createTextbox leaves it, single-line or multiline, and its key
\* events
EditInit ==
  /\ Idle /\ SignalInit /\ QueueInit /\ RegistryInit /\ StylerInit
  /\ tbValue \in TbValues
  /\ position = [x |-> 0, y |-> 0]
  /\ hidden = FALSE
  /\ tbRectangle = Rect(0, 0, 1, 1)
  /\ selected = [item |-> "none", focused |-> FALSE, active |-> FALSE]
  /\ drawn = <<>>
  /\ multiline \in BOOLEAN
  /\ emitted = <<>>
  /\ lastEvent = NoEvent
  /\ previousEvent = NoEvent
  /\ startPosition = [x |-> 0, y |-> 0]
EditNext == \E ev \in KeyEvents : KeyEvent(ev)
EditSpec == EditInit /\ [][EditNext]_vars

\* ------------------------------------------------------------ getCurrentStyler
\* { ...base, ...over }
Overlay(base, over) == [k \in DOMAIN base |-> IF k \in DOMAIN over THEN over[k] ELSE base[k]]

\* a status that ORs the selection in also when force is set
StatusIgnoringForce(option, isSelected, flag) == option.value \/ (isSelected /\ flag)

\* options?.x?.value || (!options?.x?.force && isSelected && x)
Status(option, isSelected, flag) == option.value \/ (~option.force /\ isSelected /\ flag)

getCurrentStyler ==
  LET item == selected.item
      isSelected == item = component \/ \E c \in focusedWithin(component) : item = c
      isFocused == Status(options.focused, isSelected, selected.focused)
      isActive == Status(options.active, isSelected, selected.active)
  IN IF isActive THEN Overlay(Overlay(styler.base, styler.focused), styler.active)
     ELSE IF isFocused THEN Overlay(styler.base, styler.focused)
     ELSE styler.base

GetCurrentStyler ==
  /\ pc = "idle"
  /\ currentStyler = NoStyle
  /\ currentStyler' = getCurrentStyler
  /\ UNCHANGED <<objVars, canvasVars, graphVars, tickVars, mut, component, options, styler,
                 signalVars, queueVars, registryVars, textboxVars>>

\* every component, selection, status, styler and option getCurrentStyler may meet
StylerSpecInit ==
  /\ Idle /\ SignalInit /\ QueueInit /\ RegistryInit
  /\ tbValue = <<<<>>>> /\ position = [x |-> 0, y |-> 0] /\ hidden = FALSE
  /\ tbRectangle = Rect(0, 0, 1, 1) /\ drawn = <<>>
  /\ multiline = FALSE /\ emitted = <<>> /\ lastEvent = NoEvent /\ previousEvent = NoEvent
  /\ startPosition = [x |-> 0, y |-> 0]
  /\ selected \in {[item |-> i, focused |-> f, active |-> a] :
                     i \in {"none", "textbox", "box", "other"}, f \in BOOLEAN, a \in BOOLEAN}
  /\ component \in StyledComponents
  /\ options \in {[focused |-> f, active |-> a] : f \in StatusOptions, a \in StatusOptions}
  /\ styler \in Stylers
  /\ currentStyler = NoStyle
StylerNext == GetCurrentStyler
StylerSpec == StylerSpecInit /\ [][StylerNext]_vars

\* ------------------------------------------------------------ what the screen should show
Covering(p) == {o \in Obj : p \in CellsOf(rectangle[o])}
Top(p) == CHOOSE o \in Covering(p) : \A u \in Covering(p) : zIndex(u) <= zIndex(o)
PaintOf(o, p) ==
  IF Kind(o) = "text" THEN Styled(o, CharAt(value[o], p[2] - rectangle[o].column))
  ELSE Styled(o, filler)
VisiblePos == {p \in AllPos : InBounds(p)}
Moved(o) ==
  previousRectangle[o] # NoRect /\ ~rectangleEquals(rectangle[o], previousRectangle[o])
\* the cells of o's previous rectangle outside its intersection with the new one
Uncovered(o) ==
  LET inter == rectangleIntersection(rectangle[o], previousRectangle[o])
  IN IF inter = NoRect THEN CellsOf(previousRectangle[o])
     ELSE CellsOf(previousRectangle[o]) \ CellsOf(inter)

\* ------------------------------------------------------------ claims

\* C1: when the paint pass is over, every in-bounds cell that a lower object B and
\* a higher object A both cover, A being the topmost object there, holds A's
\* styled output and not B's, whether B painted with render() or rerender().
OcclusionCorrect ==
  (pc = "flush" /\ view = NoRect) =>
    \A p \in VisiblePos : \A A \in Obj, B \in Obj :
      (/\ A \in Covering(p) /\ B \in Covering(p)
       /\ zIndex(B) < zIndex(A) /\ A = Top(p) /\ A \notin faulty)
      => frameBuffer[p] = PaintOf(A, p)

\* C1 witness: a second pass (B paints with rerender()) ends with the text t2 shown
\* over the box, and with the box shown over a cell the text t1 had queued.
OcclusionWitness ==
  /\ pc = "flush" /\ view = NoRect /\ ticks = 2 /\ faulty = {}
  /\ \E p \in VisiblePos :
        /\ "bx" \in Covering(p) /\ Top(p) = "t2"
        /\ frameBuffer[p] = PaintOf("t2", p)
  /\ \E q \in VisiblePos :
        /\ "t1" \in Covering(q) /\ Top(q) = "bx"
        /\ q \in CellsIn(rerenderCells["t1"])
        /\ frameBuffer[q] = PaintOf("bx", q)

\* C2: right after a tick's flush, every in-bounds cell shows what the topmost
\* object covering it paints there, and a cell no object covers any more does not
\* keep the characters of an object that left it (a text that became shorter).
NoStaleCell ==
  [][(pc = "flush" /\ pc' = "idle" /\ view = NoRect /\ faulty = {}) =>
       \A p \in VisiblePos :
         frameBuffer'[p] = IF Covering(p) # {} THEN PaintOf(Top(p), p) ELSE Empty]_vars

\* C3: when the movement handling of a tick is over and nothing is painted yet,
\* every object B underneath a moved object A is queued for rerender at every cell
\* of A's previous rectangle that is outside the intersection with the new one.
UncoveringQueued ==
  pc = "intersect" =>
    \A A \in Obj : Moved(A) =>
      \A B \in objectsUnder[A] : Uncovered(A) \subseteq CellsIn(rerenderCells[B])

\* C3 witness: the text t2 moved off a cell of the box underneath it.
UncoveringWitness ==
  /\ pc = "intersect" /\ Moved("t2") /\ "bx" \in objectsUnder["t2"]
  /\ \E p \in Uncovered("t2") :
        p \in CellsOf(rectangle["bx"]) /\ p \in CellsIn(rerenderCells["bx"])

\* C4: the movement handling of a text object whose rectangle differs from the
\* previous one queues every cell of the new rectangle in the object's own
\* rerender set; with an unchanged rectangle it queues nothing at all.
MovementFullRepaint ==
  [][pc = "movement" /\ Kind(drawnObjects[idx]) = "text" =>
       LET o == drawnObjects[idx]
       IN IF Moved(o)
          THEN CellsOf(rectangle[o]) \subseteq CellsIn(rerenderCells'[o])
          ELSE rerenderCells' = rerenderCells]_vars

\* C4 witness: a text moved by one column with its value unchanged; the cells of
\* the overlap with its previous rectangle are queued too.
MovementWitness ==
  /\ pc = "intersect" /\ Moved("t2") /\ rendered["t2"]
  /\ rectangle["t2"].row = previousRectangle["t2"].row
  /\ rectangle["t2"].column = previousRectangle["t2"].column + 1
  /\ rectangle["t2"].width = 2 /\ previousRectangle["t2"].width = 2
  /\ CellsOf(rectangle["t2"]) \subseteq CellsIn(rerenderCells["t2"])

\* C5: a lower object's render()/rerender() leaves every cell that a higher object
\* has claimed in its omit set out of the frame buffer and out of the output
\* queue, and when its rerender() returns the cell is gone from the object's own
\* rerender queue, also when every column of the row is claimed.
OmitContract ==
  [][(pc = "paint" /\ view = NoRect /\ faulty = {}) =>
       LET o == PaintOrder[idx]
       IN \A p \in CellsIn(omitCells[o]) :
            /\ p \in AllPos => frameBuffer'[p] = frameBuffer[p]
            /\ p \in rerenderQueue' => p \in rerenderQueue
            /\ rendered[o] => p \notin CellsIn(rerenderCells'[o])]_vars

\* C6: render() and rerender() never store a value at, or queue for output, a
\* position outside [0, rows) x [0, columns).
ClippedToCanvas ==
  /\ \A p \in AllPos : frameBuffer[p] # Empty => InBounds(p)
  /\ \A p \in rerenderQueue : InBounds(p)

\* C7: with a view rectangle set, every cell an object writes or queues for
\* output lies inside the view rectangle on all four sides.
ViewClipping ==
  view # NoRect =>
    /\ \A p \in AllPos : frameBuffer[p] # Empty => fitsInRectangle(p[2], p[1], view)
    /\ \A p \in rerenderQueue : fitsInRectangle(p[2], p[1], view)

\* C8: the steps of a tick follow the order settle, geometry, paint, flush, and no
\* geometry, paint or flush step is reached while an effect is pending: there the
\* state the label signal drives is fully propagated.
TickOrder ==
  {<<"idle", "settle">>, <<"settle", "idle">>, <<"settle", "update">>,
   <<"update", "movement">>, <<"movement", "update">>, <<"movement", "intersect">>,
   <<"intersect", "paint">>, <<"paint", "flush">>, <<"flush", "idle">>}
SettleBeforePaint ==
  [][/\ pc' \in {"update", "movement", "intersect", "paint", "flush"} =>
          pending' = {} /\ value'["t1"] = label'
     /\ pc' # pc => <<pc, pc'>> \in TickOrder]_vars

\* C8 witness: the paint pass of a tick whose settle step ran the label's effect.
SettleWitness ==
  /\ pc = "paint" /\ settleIter > 0 /\ pending = {}
  /\ label # <<"b", "a">> /\ value["t1"] = label

\* C9: the settle step runs at most MaxSettleIter effects; a tick with the
\* self-writing effect subscribed never gets to geometry, paint or flush and ends
\* with ReactiveDivergence; the settle step leaves the frame buffer, the output
\* queue and the output as they were.
DivergenceBound ==
  /\ [](/\ settleIter <= MaxSettleIter
        /\ subscribed => pc \in {"idle", "settle"}
        /\ result = "ReactiveDivergence" => pc = "idle" /\ ~flushed)
  /\ [][pc = "settle" => UNCHANGED canvasVars]_vars
  /\ (pc = "settle" /\ subscribed) ~> (pc = "idle" /\ result = "ReactiveDivergence")

\* C9 witness: a tick after a painted one ended with ReactiveDivergence, the frame
\* buffer still holding the earlier frame.
DivergenceWitness ==
  /\ pc = "idle" /\ result = "ReactiveDivergence" /\ subscribed /\ ~flushed
  /\ ticks = 2 /\ settleIter = MaxSettleIter
  /\ \E p \in VisiblePos : frameBuffer[p] # Empty

\* C10: a failing render() or rerender() does not end the paint pass: every
\* object is painted in that tick, the flush runs, and the tick returns the
\* failure.
FailureIsolation ==
  errors # {} =>
    \/ pc \in {"paint", "flush"}
    \/ pc = "idle" /\ flushed /\ painted = Obj /\ result = "RenderFailure"

\* C10 witness: a tick in which the highest object failed has ended; the objects
\* below it are painted and flushed.
FailureWitness ==
  /\ pc = "idle" /\ flushed /\ errors = {"t2"} /\ painted = Obj
  /\ result = "RenderFailure" /\ view = NoRect
  /\ \E p \in VisiblePos : frameBuffer[p] = PaintOf("bx", p)
  /\ \E p \in VisiblePos : frameBuffer[p][1] = "t1"
  /\ output # {}

\* C11: a read of a Computed runs its derive function at most once however many
\* changing writes its dependency took since the Computed was last evaluated; a
\* write runs no derive function and replaces no memoized value, and a changing
\* write leaves every Computed downstream of the Cell dirty.
ComputedLazy ==
  /\ [](lastRead.runs <= 1)
  /\ [][writes' # writes =>
          /\ derives' = derives /\ computedMemo' = computedMemo
          /\ cellValue' # cellValue => \A c \in Computeds : computedDirty'[c]]_vars

\* C11 witness: c2 was read after two changing writes nobody read in between, and
\* its derive function ran once.
LazyWitness ==
  /\ lastRead.c = "c2" /\ lastRead.unread >= 2 /\ lastRead.runs = 1
  /\ computedMemo["c2"] = Derive("c2", Derive("c1", cellValue.val))
  /\ ~computedDirty["c1"] /\ ~computedDirty["c2"]

\* C12: a write of a value equal to the Cell's current one, be it another object,
\* marks no Computed dirty, schedules no Effect, runs no derive function and adds
\* no cell to a rerender queue.
NoSpuriousNotification ==
  [][(writes' # writes /\ cellValue'.val = cellValue.val) =>
       /\ computedDirty' = computedDirty /\ computedMemo' = computedMemo
       /\ derives' = derives /\ pending' = pending
       /\ rerenderCells' = rerenderCells /\ rerenderQueue' = rerenderQueue]_vars

\* C12 witness: an equal value held by another object was written while both
\* Computeds were clean and no Effect was scheduled; they still are.
SpuriousWitness ==
  /\ lastWrite.equal /\ lastWrite.ref # cellValue.ref
  /\ ~computedDirty["c1"] /\ ~computedDirty["c2"] /\ pending = {}
  /\ computedMemo["c2"] = Derive("c2", Derive("c1", cellValue.val))

\* the cells a flushed run covers
RunCells(run) == {<<run.row, run.column + k - 1>> : k \in 1..Len(run.cells)}

\* C13: the runs flush emits cover queued cells only, each run holds what the
\* frame buffer holds in one style, no run touches another run of its style or a
\* queued cell of its style left out of it, and every queued cell is in a run; so
\* there is one run per maximal group, and none for a row with nothing queued.
FlushMinimal ==
  [][(pc = "flush" /\ pc' = "idle") =>
       /\ \A run \in output' :
            /\ Len(run.cells) >= 1
            /\ RunCells(run) \subseteq rerenderQueue
            /\ \A k \in 1..Len(run.cells) :
                 /\ run.cells[k] = frameBuffer[<<run.row, run.column + k - 1>>]
                 /\ run.cells[k][1] = run.cells[1][1]
            /\ \A c \in {run.column - 1, run.column + Len(run.cells)} :
                 ~(/\ <<run.row, c>> \in rerenderQueue
                   /\ <<run.row, c>> \in DOMAIN queuedBy
                   /\ frameBuffer[<<run.row, c>>][1] = run.cells[1][1])
       /\ \A p \in rerenderQueue :
            p \in DOMAIN queuedBy => \E run \in output' : p \in RunCells(run)
       /\ \A r1 \in output', r2 \in output' :
            r1 # r2 => RunCells(r1) \cap RunCells(r2) = {}]_vars

\* C13 witness: two cells of one row and one style were queued, the cell between
\* them, which holds that style from an earlier pass, was not; the flush emitted
\* a run for each of the two and nothing for the other row.
FlushWitness ==
  /\ pc = "idle" /\ flushed
  /\ queuedBy[<<0, 0>>] # <<>> /\ queuedBy[<<0, 1>>] = <<>> /\ queuedBy[<<0, 2>>] # <<>>
  /\ frameBuffer[<<0, 0>>][1] = frameBuffer[<<0, 2>>][1]
  /\ frameBuffer[<<0, 1>>][1] = frameBuffer[<<0, 0>>][1]
  /\ Cardinality(output) = 2
  /\ \A run \in output : run.row = 0 /\ Len(run.cells) = 1

\* C14: a cell that render()/rerender() queued once or several times before the
\* flush is in exactly one flushed run, and a cell nobody queued is in none.
QueueIdempotent ==
  [][(pc = "flush" /\ pc' = "idle") =>
       \A p \in DOMAIN queuedBy :
         Cardinality({run \in output' : p \in RunCells(run)}) =
           IF queuedBy[p] # <<>> THEN 1 ELSE 0]_vars

\* C14 witness: two objects queued the same cell in one pass, another cell was
\* queued as well; the flush wrote both once.
IdempotentWitness ==
  /\ pc = "idle" /\ flushed
  /\ \E p \in DOMAIN queuedBy :
        /\ queuedBy[p] = <<"t1", "t2">>
        /\ Cardinality({run \in output : p \in RunCells(run)}) = 1
        /\ \E q \in DOMAIN queuedBy \ {p} :
              Len(queuedBy[q]) = 1 /\ Cardinality({run \in output : q \in RunCells(run)}) = 1

\* C15: the instance's component list holds the components created and not
\* removed, each once, by ascending draw priority, and those of one priority in
\* the order of their creation.
RegistryOrder ==
  /\ Range(components) = (0..(componentId - 1)) \ removed
  /\ Len(components) = Cardinality(Range(components))
  /\ \A i \in 1..Len(components) : \A j \in 1..Len(components) :
        i < j =>
          \/ drawPriority[components[i]] < drawPriority[components[j]]
          \/ /\ drawPriority[components[i]] = drawPriority[components[j]]
             /\ components[i] < components[j]

\* C15 witness: creations and a removal in between left two components of one
\* priority and one of a lower priority that was created after them.
RegistryWitness ==
  /\ removed # {} /\ Len(components) = 3
  /\ drawPriority[components[1]] = 0
  /\ drawPriority[components[2]] = 1 /\ drawPriority[components[3]] = 1
  /\ components[1] > components[3] /\ components[2] < components[3]

\* C16: removeComponent(c) leaves c and every transitive child of c out of the
\* component list and out of their parents' children, with no event handler; the
\* other components stay in the list and in the children lists, in their order.
RemoveDetaches ==
  [][removed' # removed =>
       \E c \in removed' :
         LET gone == Subtree(c)
             keep == (DOMAIN parent) \ gone
         IN /\ removed' \ removed \subseteq gone
            /\ \A x \in gone :
                 /\ x \notin Range(components')
                 /\ x \notin Range(children'[parent[x]])
                 /\ handlers'[x] = {}
            /\ components' = Filter(components, keep)
            /\ \A o \in DOMAIN children : children'[o] = Filter(children[o], keep)]_vars

\* C16 witness: a component with a child and a grandchild was removed; a sibling
\* with its handler, created before it, is still there, and so is one created
\* after it.
RemoveWitness ==
  /\ Cardinality(removed) = 3
  /\ \E c \in removed, x \in removed, y \in removed :
        parent[c] = TuiInstance /\ parent[x] = c /\ parent[y] = x
  /\ \E s \in DOMAIN parent :
        /\ s \notin removed /\ s \in Range(components)
        /\ s \in Range(children[TuiInstance]) /\ handlers[s] # {}

\* two values with the same number of lines and the same line lengths
SameShape(v, w) == Len(v) = Len(w) /\ \A i \in 1..Len(v) : Len(v[i]) = Len(w[i])

\* C17: a hidden textbox draws no character but "*" and the blank of the cursor,
\* and what it draws is what it would draw for any other value with the same
\* line lengths, the cursor, the rectangle and the selection being the same.
HiddenMasks ==
  (hidden /\ drawn # <<>>) =>
    /\ \A i \in 1..Len(drawn) : \A k \in 1..Len(drawn[i].text) :
          drawn[i].text[k] \in {"*", " "}
    /\ \A other \in TbValues : SameShape(other, tbValue) => draw(other) = drawn

\* C17 witness: a hidden, selected textbox with two lines has drawn a line of
\* asterisks and its cursor, on a character, as an asterisk; another value of
\* that shape exists.
HiddenWitness ==
  /\ hidden /\ drawn # <<>> /\ selected.item = "textbox"
  /\ tbValue = <<<<"a", "b">>, <<"b">>>> /\ position = [x |-> 1, y |-> 0]
  /\ tbRectangle = Rect(0, 0, 2, 2)
  /\ drawn = <<[kind |-> "text", column |-> 0, row |-> 0, text |-> <<"*", "*">>],
               [kind |-> "text", column |-> 0, row |-> 1, text |-> <<"*">>],
               [kind |-> "pixel", column |-> 1, row |-> 0, text |-> <<"*">>]>>
  /\ \E other \in TbValues : other # tbValue /\ SameShape(other, tbValue)

\* the component, or one its focus comes from, is the selected item
IsSelected == selected.item = component \/ selected.item \in focusedWithin(component)
\* the status in effect: the option's value when forced, else ORed with the selection
Effective(option, flag) ==
  IF option.given /\ option.force THEN option.value
  ELSE (option.given /\ option.value) \/ (IsSelected /\ flag)

\* C18: getCurrentStyler returns the base styler with the focused and then the
\* active part laid over it when the component is active in effect, with the
\* focused part laid over it when it is only focused in effect, and the base
\* styler otherwise; a forced option is the status, an unforced one is ORed
\* with (selected and the instance's flag).
StylerChoice ==
  currentStyler # NoStyle =>
    currentStyler =
      IF Effective(options.active, selected.active)
      THEN [k \in StyleKeys |->
              IF k \in DOMAIN styler.active THEN styler.active[k]
              ELSE IF k \in DOMAIN styler.focused THEN styler.focused[k]
              ELSE styler.base[k]]
      ELSE IF Effective(options.focused, selected.focused)
      THEN [k \in StyleKeys |->
              IF k \in DOMAIN styler.focused THEN styler.focused[k] ELSE styler.base[k]]
      ELSE styler.base

\* C18 witness: the box inside the selected, focused and active textbox, called
\* with active forced to false and focus left alone, got the focused colours.
StylerWitness ==
  /\ component = "box" /\ selected = [item |-> "textbox", focused |-> TRUE, active |-> TRUE]
  /\ options.active = [given |-> TRUE, value |-> FALSE, force |-> TRUE]
  /\ ~options.focused.given
  /\ styler.focused = [k \in {"foreground"} |-> "focused"]
  /\ styler.active = [k \in StyleKeys |-> "active"]
  /\ currentStyler = [foreground |-> "focused", background |-> "background"]

\* the rows of its rerender queue a rerender() of o paints: those of the rectangle
\* inside the canvas (and above the view's bottom, for a box) whose columns are
\* not all claimed by higher objects
ProcessedRows(o) ==
  {r \in DOMAIN rerenderCells[o] :
     /\ ~(HasRow(omitCells[o], r) /\ Cardinality(omitCells[o][r]) = rectangle[o].width)
     /\ IF Kind(o) = "text" THEN r = rectangle[o].row /\ r >= 0 /\ r < Rows
        ELSE /\ r >= rectangle[o].row /\ r < rectangle[o].row + rectangle[o].height
             /\ r < Rows
             /\ view # NoRect => r < view.row + view.height}

\* C19: a rerender() that returns has changed the frame buffer and added to the
\* output queue only at cells of the object's own rerender queue inside its
\* rectangle, and has emptied its rerender queue for every row it painted.
RerenderIncremental ==
  [][(pc = "paint" /\ rendered[PaintOrder[idx]] /\ PaintOrder[idx] \notin faulty) =>
       LET o == PaintOrder[idx]
           own == CellsIn(rerenderCells[o]) \cap CellsOf(rectangle[o])
       IN /\ \A p \in AllPos : frameBuffer'[p] # frameBuffer[p] => p \in own
          /\ rerenderQueue' \ rerenderQueue \subseteq own
          /\ \A r \in ProcessedRows(o) : RowOf(rerenderCells'[o], r) = {}]_vars

\* C19 witness: the rendered text t2, changed from "ab" to "bb", has repainted
\* its first cell alone; its rerender queue is empty.
RerenderWitness ==
  /\ pc = "paint" /\ idx = 2 /\ ticks = 2 /\ faulty = {} /\ view = NoRect
  /\ rendered["t2"] /\ value["t2"] = <<"b", "b">> /\ rectangle["t2"] = Rect(0, 0, 2, 1)
  /\ frameBuffer[<<0, 0>>] = Styled("t2", "b") /\ frameBuffer[<<0, 1>>] = Styled("t2", "b")
  /\ rerenderQueue = {<<0, 0>>}
  /\ CellsIn(rerenderCells["t2"]) = {}

\* C20: update() of a rendered text object whose value changed adds to the
\* object's rerender queue exactly the cells of the indices below the new value's
\* length at which the new and the previous character differ; with the value
\* unchanged, or the object not rendered yet, it queues nothing.
UpdateQueuesDiff ==
  [][(pc = "update" /\ Kind(drawnObjects[idx]) = "text") =>
       LET o == drawnObjects[idx]
           differing == {i \in 0..(Len(value[o]) - 1) :
                           i >= Len(previousValue[o]) \/ value[o][i + 1] # previousValue[o][i + 1]}
           expected == IF rendered[o] /\ value[o] # previousValue[o]
                       THEN {<<rectangle[o].row, rectangle[o].column + i>> : i \in differing}
                       ELSE {}
       IN /\ CellsIn(rerenderCells'[o]) = CellsIn(rerenderCells[o]) \cup expected
          /\ \A u \in Obj \ {o} : rerenderCells'[u] = rerenderCells[u]]_vars

\* C20 witness: the rendered text t1, changed from "ba" to "a", has had its
\* update(): the first cell is queued, the second is not.
UpdateWitness ==
  /\ pc = "movement" /\ drawnObjects[idx] = "t1" /\ rendered["t1"] /\ ticks = 2
  /\ value["t1"] = <<"a">> /\ previousValue["t1"] = <<"a">>
  /\ rectangle["t1"] = Rect(1, 0, 1, 1) /\ previousRectangle["t1"] = Rect(1, 0, 2, 1)
  /\ CellsIn(rerenderCells["t1"]) = {<<1, 0>>}

\* C21: a textbox created with one line or more and the cursor at (0, 0) has,
\* after any key events, one line or more, the cursor's row on a line of the
\* value and the cursor's column between 0 and that line's length.
CursorInvariant ==
  /\ Len(tbValue) >= 1
  /\ position.y >= 0 /\ position.y < Len(tbValue)
  /\ position.x >= 0 /\ position.x <= Len(tbValue[position.y + 1])

\* C21 witness: delete at the end of the first of two lines has joined them; the
\* cursor is inside the one line left.
CursorWitness ==
  /\ lastEvent = Event("delete", FALSE, FALSE, FALSE)
  /\ Len(emitted) = 1 /\ Len(emitted[1]) = 2 /\ Len(tbValue) = 1
  /\ position.y = 0 /\ position.x > 0 /\ position.x < Len(tbValue[1])

\* C22: a return key leaves the concatenation of the lines as it was; in
\* multiline mode the current line is split at the cursor into two lines, otherwise
\* the number of lines stays.
ReturnKeepsCharacters ==
  [][(lastEvent'.key = "return" /\ ~lastEvent'.shift) =>
       LET line == tbValue[position.y + 1]
       IN /\ Joined(tbValue') = Joined(tbValue)
          /\ multiline =>
                /\ Len(tbValue') = Len(tbValue) + 1
                /\ tbValue'[position.y + 1] = SubSeq(line, 1, position.x)
                /\ tbValue'[position.y + 2] = SubSeq(line, position.x + 1, Len(line))
          /\ ~multiline => Len(tbValue') = Len(tbValue)]_vars

\* a single character typed: no ctrl, meta or shift held
Typed(ev) == ev.key \in Chars /\ ~ev.shift /\ ~ev.ctrl /\ ~ev.meta

\* C23: a backspace right after a typed character, or in multiline mode right
\* after a return, leaves the value and the cursor as they were before that
\* character or return.
EditRoundTrip ==
  [][(lastEvent' = Event("backspace", FALSE, FALSE, FALSE)
        /\ (Typed(lastEvent) \/ (multiline /\ lastEvent = Event("return", FALSE, FALSE, FALSE)))) =>
       (tbValue' = emitted[1] /\ position' = startPosition)]_vars

\* C23 witness: in multiline mode return in the middle of "ab" and then backspace:
\* one line "ab" again, the cursor in its middle.
RoundTripWitness ==
  /\ multiline
  /\ previousEvent = Event("return", FALSE, FALSE, FALSE)
  /\ lastEvent = Event("backspace", FALSE, FALSE, FALSE)
  /\ emitted = <<<<<<"a">>, <<"b">>>>>>
  /\ tbValue = <<<<"a", "b">>>> /\ position = [x |-> 1, y |-> 0]

\* C24: a key event with a key, shift not held, that is a single character
\* without ctrl and meta or one of the nine named keys emits one valueChange whose
\* payload is the value before the key; any other key event emits nothing and
\* leaves the value and the cursor.
ValueChangeEvents ==
  [][LET ev == lastEvent'
     IN IF /\ ev.key # "" /\ ~ev.shift
           /\ \/ ev.key \in Chars /\ ~ev.ctrl /\ ~ev.meta
              \/ ev.key \in {"up", "down", "left", "right", "return", "backspace", "delete",
                              "home", "end"}
        THEN emitted' = <<tbValue>>
        ELSE emitted' = <<>> /\ tbValue' = tbValue /\ position' = position]_vars

\* C24 witness: "b" typed after "a" has emitted one event, carrying the line
\* "a"; shift with "a" before it emitted none.
ValueChangeWitness ==
  /\ lastEvent = Event("b", FALSE, FALSE, FALSE)
  /\ previousEvent = Event("a", TRUE, FALSE, FALSE)
  /\ emitted = <<<<<<"a">>>>>>
  /\ tbValue = <<<<"a", "b">>>>

====
